---- MODULE Spec2Model ----
(***************************************************************************)
(* Cell vertexes of the H3 grid (src/h3lib/lib/vertex.c): the rotation     *)
(* resolver vertexRotations, the direction <-> vertex number mapping, the  *)
(* canonical vertex of a cell corner (getCellVertex), getCellVertexes and  *)
(* the decoding half of vertexToPoint.                                     *)
(*                                                                         *)
(* An H3 index is modelled by the record of what the library's index and   *)
(* projection primitives report about it: idx (the raw value of the cell   *)
(* index, which is what "<" compares), baseCell (h3GetBaseCell), digit     *)
(* (_h3LeadingNonZeroDigit), face (_h3ToFaceIjk), homeFace                 *)
(* (_baseCellToFaceIjk), rot60 (_baseCellToCCWrot60 of baseCell and face)  *)
(* and polar (_isBaseCellPolarPentagon).  A cell of a corner world also    *)
(* carries vn, the number of the shared corner in its own numbering.       *)
(***************************************************************************)
EXTENDS Integers, Sequences, FiniteSets, TLC

VARIABLES grid, op, who, arg, ret
vars == <<grid, op, who, arg, ret>>

-----------------------------------------------------------------------------
(* Bounds of the model.                                                    *)

\* faces a cell of a hexagon base cell is projected to: 0..MaxFace
MaxFace == 1
\* directions handed to vertexNumForDirection: 0..MaxDirection
MaxDirection == 8
\* vertex numbers handed to the operations: -1..MaxVertexNum
MaxVertexNum == 6
\* base-cell rotations of the cells of a corner world: 0 and CornerRot
CornerRot == 1

-----------------------------------------------------------------------------
(* Program constants.                                                      *)

CENTER_DIGIT == 0
K_AXES_DIGIT == 1
J_AXES_DIGIT == 2
JK_AXES_DIGIT == 3
I_AXES_DIGIT == 4
IK_AXES_DIGIT == 5
IJ_AXES_DIGIT == 6
INVALID_DIGIT == 7
NUM_DIGITS == 7
NUM_HEX_VERTS == 6
NUM_PENT_VERTS == 5
NUM_PENTAGONS == 12
INVALID_VERTEX_NUM == 0 - 1
DIRECTION_INDEX_OFFSET == 2
H3_HEXAGON_MODE == 1
H3_VERTEX_MODE == 4

-----------------------------------------------------------------------------
(* The index and projection primitives vertex.c consumes.                  *)

h3GetBaseCell(cell) == cell.baseCell
h3LeadingNonZeroDigit(cell) == cell.digit
h3ToFaceIjk(cell) == cell.face
baseCellToFaceIjk(cell) == cell.homeFace
baseCellToCCWrot60(cell) == cell.rot60
isBaseCellPolarPentagon(cell) == cell.polar

(* Table of direction-to-face mapping for each pentagon; faces are in      *)
(* directional order, starting at J_AXES_DIGIT.                            *)
pentagonDirectionFaces ==
  << [baseCell |-> 4,   faces |-> <<4, 0, 2, 1, 3>>],
     [baseCell |-> 14,  faces |-> <<6, 11, 2, 7, 1>>],
     [baseCell |-> 24,  faces |-> <<5, 10, 1, 6, 0>>],
     [baseCell |-> 38,  faces |-> <<7, 12, 3, 8, 2>>],
     [baseCell |-> 49,  faces |-> <<9, 14, 0, 5, 4>>],
     [baseCell |-> 58,  faces |-> <<8, 13, 4, 9, 3>>],
     [baseCell |-> 63,  faces |-> <<11, 6, 15, 10, 16>>],
     [baseCell |-> 72,  faces |-> <<12, 7, 16, 11, 17>>],
     [baseCell |-> 83,  faces |-> <<10, 5, 19, 14, 15>>],
     [baseCell |-> 97,  faces |-> <<13, 8, 17, 12, 18>>],
     [baseCell |-> 107, faces |-> <<14, 9, 18, 13, 19>>],
     [baseCell |-> 117, faces |-> <<15, 19, 17, 18, 16>>] >>

\* the pentagon base cells are the base cells the table has an entry for
PentagonBaseCells == { pentagonDirectionFaces[p].baseCell : p \in 1..NUM_PENTAGONS }
isBaseCellPentagon(baseCell) == baseCell \in PentagonBaseCells

\* a cell is a pentagon when its base cell is one and all its digits are 0
h3IsPentagon(cell) ==
  isBaseCellPentagon(h3GetBaseCell(cell)) /\ h3LeadingNonZeroDigit(cell) = CENTER_DIGIT

\* the loop of vertexRotations: the entry of the table for baseCell (no two
\* entries have the same base cell)
dirFacesOf(baseCell) ==
  pentagonDirectionFaces[CHOOSE p \in 1..NUM_PENTAGONS :
                           pentagonDirectionFaces[p].baseCell = baseCell]

\* dirFaces.faces[digit - DIRECTION_INDEX_OFFSET], the C array being 0-based
dirFace(dirFaces, digit) == dirFaces.faces[digit - DIRECTION_INDEX_OFFSET + 1]

-----------------------------------------------------------------------------
(* vertexRotations: the number of CCW rotations of the cell's vertex       *)
(* numbers compared to the directional layout of its neighbors.            *)

\* (variant for C8: the polar pentagons are not told apart, only the IK face
\* takes the additional rotation)
polarOrIKRotation_noPolar(cell, dirFaces, ccwRot60) ==
  IF /\ h3ToFaceIjk(cell) # baseCellToFaceIjk(cell)
     /\ h3ToFaceIjk(cell) = dirFace(dirFaces, IK_AXES_DIGIT)
  THEN (ccwRot60 + 1) % 6
  ELSE ccwRot60

\* the additional CCW rotation for polar neighbors or IK neighbors
polarOrIKRotation(cell, dirFaces, ccwRot60) ==
  IF /\ h3ToFaceIjk(cell) # baseCellToFaceIjk(cell)
     /\ \/ isBaseCellPolarPentagon(cell)
        \/ h3ToFaceIjk(cell) = dirFace(dirFaces, IK_AXES_DIGIT)
  THEN (ccwRot60 + 1) % 6
  ELSE ccwRot60

\* the rotation of a cell that crosses a deleted pentagon subsequence
deletedSubsequenceRotation(cell, dirFaces, ccwRot60) ==
  IF /\ h3LeadingNonZeroDigit(cell) = JK_AXES_DIGIT
     /\ h3ToFaceIjk(cell) = dirFace(dirFaces, IK_AXES_DIGIT)
  THEN (ccwRot60 + 5) % 6
  ELSE IF /\ h3LeadingNonZeroDigit(cell) = IK_AXES_DIGIT
          /\ h3ToFaceIjk(cell) = dirFace(dirFaces, JK_AXES_DIGIT)
       THEN (ccwRot60 + 1) % 6
       ELSE ccwRot60

vertexRotations(cell, adjustForPentagon) ==
  LET baseCell == h3GetBaseCell(cell)
      ccwRot60 == baseCellToCCWrot60(cell)
  IN IF adjustForPentagon /\ isBaseCellPentagon(baseCell)
     THEN LET dirFaces == dirFacesOf(baseCell)
          IN deletedSubsequenceRotation(cell, dirFaces,
               polarOrIKRotation(cell, dirFaces, ccwRot60))
     ELSE ccwRot60

-----------------------------------------------------------------------------
(* Direction <-> vertex number.                                            *)

\* hexagon direction to vertex number relationships (same face)
directionToVertexNumHex(direction) ==
  <<INVALID_DIGIT, 3, 1, 2, 5, 4, 0>>[direction + 1]

\* (variant for C1: the vertex numbers of the I and IK directions exchanged)
directionToVertexNumPent_swapped(direction) ==
  <<INVALID_DIGIT, INVALID_DIGIT, 1, 2, 3, 4, 0>>[direction + 1]

\* pentagon direction to vertex number relationships (same face)
directionToVertexNumPent(direction) ==
  <<INVALID_DIGIT, INVALID_DIGIT, 1, 2, 4, 3, 0>>[direction + 1]

\* (variant for C7: the deleted K axis of a pentagon is not rejected)
vertexNumForDirection_noPentagonCheck(origin, direction) ==
  LET isPentagon == h3IsPentagon(origin)
  IN IF \/ direction = CENTER_DIGIT
        \/ direction >= INVALID_DIGIT
     THEN INVALID_VERTEX_NUM
     ELSE LET rotations == vertexRotations(origin, TRUE)
          IN IF isPentagon
             THEN (directionToVertexNumPent(direction) + NUM_PENT_VERTS - rotations)
                    % NUM_PENT_VERTS
             ELSE (directionToVertexNumHex(direction) + NUM_HEX_VERTS - rotations)
                    % NUM_HEX_VERTS

vertexNumForDirection(origin, direction) ==
  LET isPentagon == h3IsPentagon(origin)
  IN IF \/ direction = CENTER_DIGIT
        \/ direction >= INVALID_DIGIT
        \/ (isPentagon /\ direction = K_AXES_DIGIT)
     THEN INVALID_VERTEX_NUM
     ELSE LET rotations == vertexRotations(origin, TRUE)
          IN IF isPentagon
             THEN (directionToVertexNumPent(direction) + NUM_PENT_VERTS - rotations)
                    % NUM_PENT_VERTS
             ELSE (directionToVertexNumHex(direction) + NUM_HEX_VERTS - rotations)
                    % NUM_HEX_VERTS

\* vertex number to hexagon direction relationships (same face)
vertexNumToDirectionHex(vertexNum) ==
  <<IJ_AXES_DIGIT, J_AXES_DIGIT, JK_AXES_DIGIT,
    K_AXES_DIGIT, IK_AXES_DIGIT, I_AXES_DIGIT>>[vertexNum + 1]

\* (variant for C10: the first five entries of the hexagon table)
vertexNumToDirectionPent_hexOrder(vertexNum) ==
  <<IJ_AXES_DIGIT, J_AXES_DIGIT, JK_AXES_DIGIT,
    K_AXES_DIGIT, IK_AXES_DIGIT>>[vertexNum + 1]

\* vertex number to pentagon direction relationships (same face)
vertexNumToDirectionPent(vertexNum) ==
  <<IJ_AXES_DIGIT, J_AXES_DIGIT, JK_AXES_DIGIT,
    IK_AXES_DIGIT, I_AXES_DIGIT>>[vertexNum + 1]

\* (variant for C5: the vertex number is checked against the hexagon's range
\* whatever the shape)
directionForVertexNum_hexRange(origin, vertexNum) ==
  LET isPentagon == h3IsPentagon(origin)
  IN IF \/ vertexNum < 0
        \/ vertexNum > NUM_HEX_VERTS - 1
     THEN INVALID_DIGIT
     ELSE LET rotations == vertexRotations(origin, TRUE)
          IN IF isPentagon
             THEN vertexNumToDirectionPent((vertexNum + rotations) % NUM_PENT_VERTS)
             ELSE vertexNumToDirectionHex((vertexNum + rotations) % NUM_HEX_VERTS)

directionForVertexNum(origin, vertexNum) ==
  LET isPentagon == h3IsPentagon(origin)
  IN IF \/ vertexNum < 0
        \/ vertexNum > (IF isPentagon THEN NUM_PENT_VERTS ELSE NUM_HEX_VERTS) - 1
     THEN INVALID_DIGIT
     ELSE LET rotations == vertexRotations(origin, TRUE)
          IN IF isPentagon
             THEN vertexNumToDirectionPent((vertexNum + rotations) % NUM_PENT_VERTS)
             ELSE vertexNumToDirectionHex((vertexNum + rotations) % NUM_HEX_VERTS)

-----------------------------------------------------------------------------
(* H3 index values.  The mode is stored above the reserved bits, and the   *)
(* reserved bits above the rest of the index, so the raw value orders the  *)
(* indexes by mode, then reserved bits, then the rest.                     *)

\* the values the part of the index below the reserved bits takes here
IndexSpan == 2 ^ 6

h3Index(cell) == [mode |-> H3_HEXAGON_MODE, reserved |-> 0, idx |-> cell.idx]
H3_NULL == [mode |-> 0, reserved |-> 0, idx |-> 0]
rawValue(h) == (h.mode * 8 + h.reserved) * IndexSpan + h.idx

H3_SET_MODE(h, mode) == [h EXCEPT !.mode = mode]
\* the reserved bits are 3 bits wide
H3_SET_RESERVED_BITS(h, v) == [h EXCEPT !.reserved = v % 8]
H3_GET_RESERVED_BITS(h) == h.reserved

-----------------------------------------------------------------------------
(* The grid around the cells of the model.  grid holds one cell, or the    *)
(* three cells that share one corner, in counterclockwise order around it: *)
(* seen from grid[i], the next cell is its right neighbor at that corner   *)
(* and the one after is its left neighbor.  Every other neighbor of a cell *)
(* is a cell outside grid, with a larger index.                            *)

numVerts(cell) == IF h3IsPentagon(cell) THEN NUM_PENT_VERTS ELSE NUM_HEX_VERTS

rightOf(i) == (i % 3) + 1
leftOf(i) == ((i + 1) % 3) + 1

posOf(cell) == CHOOSE i \in 1..Len(grid) : grid[i].idx = cell.idx

\* the neighbor of origin in a direction that leads out of grid
outerCell(origin, direction) ==
  [idx |-> 3 + 6 * (origin.idx - 1) + direction, baseCell |-> 0, digit |-> 0,
   face |-> origin.face, homeFace |-> origin.face, rot60 |-> 0, polar |-> FALSE,
   vn |-> 0]

\* h3NeighborRotations: the neighbor of origin in a direction.  The corner
\* origin.vn lies between the edge to the right neighbor (the edge from
\* vertex vn - 1 to vn) and the edge to the left neighbor (from vn to vn + 1),
\* and directionForVertexNum names the direction across each edge.
h3NeighborRotations(origin, direction) ==
  IF Len(grid) = 3 /\ (\E i \in 1..3 : grid[i].idx = origin.idx)
  THEN LET i == posOf(origin)
           n == numVerts(origin)
       IN IF direction = directionForVertexNum(origin, origin.vn)
          THEN grid[leftOf(i)]
          ELSE IF direction = directionForVertexNum(origin, (origin.vn - 1 + n) % n)
               THEN grid[rightOf(i)]
               ELSE outerCell(origin, direction)
  ELSE outerCell(origin, direction)

\* directionForNeighbor: the direction in which destination is a neighbor of
\* origin, INVALID_DIGIT when it is none
directionForNeighbor(origin, destination) ==
  IF Len(grid) = 3 /\ (\E i \in 1..3 : grid[i].idx = origin.idx)
  THEN LET i == posOf(origin)
           n == numVerts(origin)
       IN IF destination.idx = grid[leftOf(i)].idx
          THEN directionForVertexNum(origin, origin.vn)
          ELSE IF destination.idx = grid[rightOf(i)].idx
               THEN directionForVertexNum(origin, (origin.vn - 1 + n) % n)
               ELSE INVALID_DIGIT
  ELSE INVALID_DIGIT

\* the cell an index names
cellOf(h) ==
  IF \E i \in 1..Len(grid) : grid[i].idx = h.idx
  THEN grid[CHOOSE i \in 1..Len(grid) : grid[i].idx = h.idx]
  ELSE [idx |-> h.idx, baseCell |-> 0, digit |-> 0, face |-> 0, homeFace |-> 0,
        rot60 |-> 0, polar |-> FALSE, vn |-> 0]

-----------------------------------------------------------------------------
(* getCellVertex, getCellVertexes and the decoding of vertexToPoint.       *)

\* (variant for C6: the two columns exchanged)
neighborVertexes_swapped(vertexNum, side) ==
  << <<2, 4>>, <<3, 5>>, <<4, 0>>, <<5, 1>>, <<0, 2>>, <<1, 3>> >>[vertexNum + 1][side + 1]

\* lookup table from origin vertex to [leftVertex, rightVertex] (same orientation)
neighborVertexes(vertexNum, side) ==
  << <<4, 2>>, <<5, 3>>, <<0, 4>>, <<1, 5>>, <<2, 0>>, <<3, 1>> >>[vertexNum + 1][side + 1]

\* (variant for C2: the right neighbor is never compared)
vertexOwner_leftOnly(origin, leftNeighbor, rightNeighbor) ==
  IF rawValue(h3Index(leftNeighbor)) < rawValue(h3Index(origin))
  THEN leftNeighbor ELSE origin

\* (variant for C4: the left neighbor is never compared)
vertexOwner_rightOnly(origin, leftNeighbor, rightNeighbor) ==
  IF rawValue(h3Index(rightNeighbor)) < rawValue(h3Index(origin))
  THEN rightNeighbor ELSE origin

\* the owner: by convention the cell with the lowest numerical index
vertexOwner(origin, leftNeighbor, rightNeighbor) ==
  LET o1 == IF rawValue(h3Index(leftNeighbor)) < rawValue(h3Index(origin))
            THEN leftNeighbor ELSE origin
  IN IF rawValue(h3Index(rightNeighbor)) < rawValue(h3Index(o1))
     THEN rightNeighbor ELSE o1

isSimpleCase(origin, owner) ==
  /\ ~h3IsPentagon(owner)
  /\ ~h3IsPentagon(origin)
  /\ h3ToFaceIjk(origin) = h3ToFaceIjk(owner)

\* (variant for C3: the first vertex of the edge is taken, not the second)
leftOwnerVertexNum_firstVertex(owner, dir) == vertexNumForDirection(owner, dir)

\* (variant for C9: only the hexagon's vertex count is wrapped)
leftOwnerVertexNum_hexWrapOnly(owner, dir) ==
  LET ownerVertexNum == vertexNumForDirection(owner, dir) + 1
  IN IF ownerVertexNum = NUM_HEX_VERTS THEN 0 ELSE ownerVertexNum

\* the vertex number of a left-neighbor owner on the general path: the second
\* vertex of the edge, which may loop around the vertex numbers
leftOwnerVertexNum(owner, dir) ==
  LET ownerVertexNum == vertexNumForDirection(owner, dir) + 1
  IN IF \/ (h3IsPentagon(owner) /\ ownerVertexNum = NUM_PENT_VERTS)
        \/ ownerVertexNum = NUM_HEX_VERTS
     THEN 0
     ELSE ownerVertexNum

\* the vertex number of a right-neighbor owner on the general path
rightOwnerVertexNum(owner, dir) == vertexNumForDirection(owner, dir)

\* the vertex number for the owner cell
ownerVertexNumOf(origin, vertexNum, owner, leftNeighbor, rightNeighbor) ==
  IF owner.idx # origin.idx
  THEN IF owner.idx = leftNeighbor.idx
       THEN IF isSimpleCase(origin, owner)
            THEN neighborVertexes(vertexNum, 0)
            ELSE leftOwnerVertexNum(owner, directionForNeighbor(owner, origin))
       ELSE IF owner.idx = rightNeighbor.idx
            THEN IF isSimpleCase(origin, owner)
                 THEN neighborVertexes(vertexNum, 1)
                 ELSE rightOwnerVertexNum(owner, directionForNeighbor(owner, origin))
            ELSE vertexNum
  ELSE vertexNum

getCellVertex(origin, vertexNum) ==
  LET originNumVerts == numVerts(origin)
      left == directionForVertexNum(origin, vertexNum)
  IN IF left = INVALID_DIGIT THEN H3_NULL
     ELSE
       LET leftNeighbor == h3NeighborRotations(origin, left)
           right == directionForVertexNum(origin,
                      (vertexNum - 1 + originNumVerts) % originNumVerts)
       IN IF right = INVALID_DIGIT THEN H3_NULL
          ELSE
            LET rightNeighbor == h3NeighborRotations(origin, right)
                owner == vertexOwner(origin, leftNeighbor, rightNeighbor)
                ownerVertexNum ==
                  ownerVertexNumOf(origin, vertexNum, owner, leftNeighbor, rightNeighbor)
            IN H3_SET_RESERVED_BITS(H3_SET_MODE(h3Index(owner), H3_VERTEX_MODE),
                                    ownerVertexNum)

\* fills slots 0..5 in order; the sequence is 1-based, slot i is at i + 1
getCellVertexes(origin) ==
  [i \in 1..NUM_HEX_VERTS |-> getCellVertex(origin, i - 1)]

\* vertexToPoint: the vertex number and the owner it reads from the vertex
vertexToPointVertexNum(vertex) == H3_GET_RESERVED_BITS(vertex)
vertexToPointOwner(vertex) ==
  H3_SET_RESERVED_BITS(H3_SET_MODE(vertex, H3_HEXAGON_MODE), 0)

-----------------------------------------------------------------------------
(* The cells the operations are applied to.                                *)

\* a hexagon base cell (any base cell the pentagon table has no entry for)
HexBaseCell == 0

Rotations == 0..(NUM_HEX_VERTS - 1)
Directions == 0..MaxDirection
VertexNums == (0 - 1)..MaxVertexNum

\* the five faces around a pentagon base cell
pentagonFaces(baseCell) ==
  { dirFacesOf(baseCell).faces[i] : i \in 1..NUM_PENT_VERTS }

\* cells of a pentagon base cell: the pentagon itself (all digits 0) and its
\* descendants, whose leading digit is never the deleted K axis; they are
\* projected to one of the five faces around the pentagon
PentagonBaseCellCells ==
  UNION { { [idx |-> 1, baseCell |-> b, digit |-> d, face |-> f, homeFace |-> h,
             rot60 |-> r, polar |-> po] :
               d \in (CENTER_DIGIT..IJ_AXES_DIGIT) \ {K_AXES_DIGIT},
               f \in pentagonFaces(b), h \in pentagonFaces(b),
               r \in Rotations, po \in BOOLEAN } : b \in PentagonBaseCells }

HexBaseCellCells ==
  { [idx |-> 1, baseCell |-> HexBaseCell, digit |-> d, face |-> f, homeFace |-> h,
     rot60 |-> r, polar |-> FALSE] :
       d \in CENTER_DIGIT..IJ_AXES_DIGIT,
       f \in 0..MaxFace, h \in 0..MaxFace, r \in Rotations }

Cells == PentagonBaseCellCells \cup HexBaseCellCells

-----------------------------------------------------------------------------
(* The operations on one cell: the cell is drawn first, then one operation *)
(* is applied to it.                                                       *)

Init ==
  /\ grid \in { <<cell>> : cell \in Cells }
  /\ op = "none"
  /\ who = 1
  /\ arg = 0
  /\ ret = 0

VertexRotations ==
  /\ op = "none"
  /\ \E adjustForPentagon \in BOOLEAN :
       /\ op' = "vertexRotations"
       /\ arg' = adjustForPentagon
       /\ ret' = vertexRotations(grid[who], adjustForPentagon)
       /\ UNCHANGED <<grid, who>>

VertexNumForDirection ==
  /\ op = "none"
  /\ \E direction \in Directions :
       /\ op' = "vertexNumForDirection"
       /\ arg' = direction
       /\ ret' = vertexNumForDirection(grid[who], direction)
       /\ UNCHANGED <<grid, who>>

DirectionForVertexNum ==
  /\ op = "none"
  /\ \E vertexNum \in VertexNums :
       /\ op' = "directionForVertexNum"
       /\ arg' = vertexNum
       /\ ret' = directionForVertexNum(grid[who], vertexNum)
       /\ UNCHANGED <<grid, who>>

GetCellVertex ==
  /\ op = "none"
  /\ \E vertexNum \in VertexNums :
       /\ op' = "getCellVertex"
       /\ arg' = vertexNum
       /\ ret' = getCellVertex(grid[who], vertexNum)
       /\ UNCHANGED <<grid, who>>

GetCellVertexes ==
  /\ op = "none"
  /\ op' = "getCellVertexes"
  /\ arg' = 0
  /\ ret' = getCellVertexes(grid[who])
  /\ UNCHANGED <<grid, who>>

Next ==
  \/ VertexRotations
  \/ VertexNumForDirection
  \/ DirectionForVertexNum
  \/ GetCellVertex
  \/ GetCellVertexes

Spec == Init /\ [][Next]_vars

-----------------------------------------------------------------------------
(* The operations on the three cells that share a corner.                  *)

\* the faces of a corner world: getCellVertex only compares the faces of two
\* cells, and three cells meet across at most one edge of the icosahedron
CornerFaces == {0, 1}

\* the cells of a corner world: hexagons, and the pentagon of a base cell
CornerHexagons ==
  { [idx |-> x, baseCell |-> HexBaseCell, digit |-> CENTER_DIGIT, face |-> f,
     homeFace |-> f, rot60 |-> r, polar |-> FALSE, vn |-> v] :
       x \in 1..3, f \in CornerFaces, r \in {0, CornerRot},
       v \in 0..(NUM_HEX_VERTS - 1) }

\* the pentagon lies on the home face of its base cell
CornerPentagons ==
  { [idx |-> x, baseCell |-> pentagonDirectionFaces[1].baseCell,
     digit |-> CENTER_DIGIT, face |-> 0, homeFace |-> 0, rot60 |-> r,
     polar |-> TRUE, vn |-> v] :
       x \in 1..3, r \in {0, CornerRot}, v \in 0..(NUM_PENT_VERTS - 1) }

\* _baseCellToCCWrot60 is a function of the base cell and the face
sameRotation(a, b) ==
  (a.baseCell = b.baseCell /\ a.face = b.face) => a.rot60 = b.rot60

\* two hexagons projected to the same face have the same orientation: an edge
\* they share is edge s of the one and edge s + 3 of the other.  With b the
\* right neighbor of a at the corner, the shared edge is edge a.vn - 1 of a
\* and edge b.vn of b.
sameOrientation(a, b) ==
  (~h3IsPentagon(a) /\ ~h3IsPentagon(b) /\ a.face = b.face)
    => b.vn = (a.vn + 2) % NUM_HEX_VERTS

\* b can be the right neighbor of a at the corner
rightNeighborFits(a, b) ==
  a.idx # b.idx /\ sameRotation(a, b) /\ sameOrientation(a, b)

\* the three cells around a corner; pentagons are never neighbors, so at
\* most the first cell is one
InitCorner ==
  /\ \E a \in CornerHexagons \cup CornerPentagons :
       \E b \in CornerHexagons :
         /\ rightNeighborFits(a, b)
         /\ \E c \in CornerHexagons :
              /\ rightNeighborFits(b, c)
              /\ rightNeighborFits(c, a)
              /\ grid = <<a, b, c>>
  /\ op = "none"
  /\ who = 1
  /\ arg = 0
  /\ ret = H3_NULL

\* getCellVertex on one of the three cells, for the corner they share
GetSharedVertex ==
  /\ op = "none"
  /\ \E i \in 1..3 :
       /\ op' = "getCellVertex"
       /\ who' = i
       /\ arg' = grid[i].vn
       /\ ret' = getCellVertex(grid[i], grid[i].vn)
       /\ UNCHANGED grid

\* a vertex is decoded as vertexToPoint decodes it, and getCellVertex is
\* applied to the owner and the vertex number it holds
RoundTrip ==
  /\ op = "getCellVertex"
  /\ ret # H3_NULL
  /\ op' = "roundTrip"
  /\ arg' = ret
  /\ ret' = getCellVertex(cellOf(vertexToPointOwner(ret)), vertexToPointVertexNum(ret))
  /\ UNCHANGED <<grid, who>>

NextCorner ==
  \/ GetSharedVertex
  \/ RoundTrip

SpecCorner == InitCorner /\ [][NextCorner]_vars

-----------------------------------------------------------------------------
(* Properties of the operations on one cell (checked under Spec).          *)

origin == grid[who]
validVertexNums(cell) == 0..(numVerts(cell) - 1)
validDirection(cell, d) ==
  /\ d \in K_AXES_DIGIT..IJ_AXES_DIGIT
  /\ ~(h3IsPentagon(cell) /\ d = K_AXES_DIGIT)

\* C1: inverse law.  For every cell, hexagon or pentagon, under every
\* rotation count, the direction directionForVertexNum returns for a vertex
\* number valid for the cell's shape is a valid direction of the cell, and
\* vertexNumForDirection applied to that direction returns the vertex number.
C1_InverseLaw ==
  /\ (op = "directionForVertexNum" /\ arg \in validVertexNums(origin))
       => validDirection(origin, ret)
  /\ op = "vertexNumForDirection"
       => \A v \in validVertexNums(origin) :
            directionForVertexNum(origin, v) = arg => ret = v

\* a pentagon rotated 5 times, asked for the direction of its vertex 4
C1_Witness ==
  /\ op = "vertexNumForDirection"
  /\ h3IsPentagon(origin)
  /\ vertexRotations(origin, TRUE) = 5
  /\ directionForVertexNum(origin, 4) = arg
  /\ ret = 4

\* C5: pentagon slot count.  getCellVertexes fills slots 0..5 in order with
\* getCellVertex(origin, i); for a pentagon, under every rotation count, slots
\* 0..4 are vertexes and slot 5 is H3_NULL (5 vertexes and 1 null); for a
\* hexagon all 6 slots are vertexes.
C5_PentagonSlotCount ==
  op = "getCellVertexes" =>
    /\ \A i \in 0..(NUM_HEX_VERTS - 1) :
         /\ ret[i + 1] = getCellVertex(origin, i)
         /\ (ret[i + 1] = H3_NULL) <=> (h3IsPentagon(origin) /\ i = NUM_PENT_VERTS)
    /\ Cardinality({ i \in 1..NUM_HEX_VERTS : ret[i] # H3_NULL }) = numVerts(origin)

\* a pentagon rotated 5 times whose last slot is empty
C5_Witness ==
  /\ op = "getCellVertexes"
  /\ h3IsPentagon(origin)
  /\ vertexRotations(origin, TRUE) = 5
  /\ ret[6] = H3_NULL
  /\ ret[5] # H3_NULL

\* C7: vertexNumForDirection returns INVALID_VERTEX_NUM exactly when the
\* direction is the center, is INVALID_DIGIT or beyond, or is the deleted K
\* axis on a pentagon; for every other direction it returns a vertex number
\* valid for the cell's shape.
C7_InvalidDirection ==
  op = "vertexNumForDirection" =>
    IF \/ arg = CENTER_DIGIT
       \/ arg >= INVALID_DIGIT
       \/ (h3IsPentagon(origin) /\ arg = K_AXES_DIGIT)
    THEN ret = INVALID_VERTEX_NUM
    ELSE ret \in validVertexNums(origin)

\* the deleted K axis on a pentagon gives the invalid vertex number
C7_Witness ==
  /\ op = "vertexNumForDirection"
  /\ h3IsPentagon(origin)
  /\ arg = K_AXES_DIGIT
  /\ ret = INVALID_VERTEX_NUM

\* the case C8 is about: a cell of a polar pentagon base cell, projected to
\* a face other than the home face, with the pentagon adjustment requested
polarOffHomeFace ==
  /\ op = "vertexRotations"
  /\ arg = TRUE
  /\ isBaseCellPentagon(origin.baseCell)
  /\ origin.polar
  /\ origin.face # origin.homeFace

\* C8 as claimed: for every such cell, whatever its leading digit and face,
\* vertexRotations returns (base rotation + 1) mod 6.
C8_PolarPlusOne ==
  polarOffHomeFace => ret = (origin.rot60 + 1) % 6

\* the rotation a cell takes for crossing a deleted pentagon subsequence
crossingTurn(cell) ==
  LET faces == dirFacesOf(cell.baseCell).faces
  IN IF cell.digit = JK_AXES_DIGIT /\ cell.face = faces[4] THEN 5
     ELSE IF cell.digit = IK_AXES_DIGIT /\ cell.face = faces[2] THEN 1
     ELSE 0

\* C8 amended: for every such cell vertexRotations returns
\* (base rotation + 1) mod 6, except that a cell with leading digit JK on the
\* pentagon's IK face is turned back clockwise (the base rotation) and a cell
\* with leading digit IK on the pentagon's JK face is turned once more
\* (base rotation + 2 mod 6).
C8_PolarPlusOneUnlessCrossing ==
  polarOffHomeFace => ret = (origin.rot60 + 1 + crossingTurn(origin)) % 6

\* a polar cell off its home face that gets exactly base rotation + 1, and
\* is on neither side of a deleted subsequence
C8_Witness ==
  /\ polarOffHomeFace
  /\ crossingTurn(origin) = 0
  /\ origin.digit = JK_AXES_DIGIT
  /\ ret = (origin.rot60 + 1) % 6

\* C10: for every cell and every corner slot valid for its shape, the left
\* and the right direction getCellVertex resolves are valid directions of the
\* cell (never the center, never the deleted K axis on a pentagon) and
\* differ; getCellVertex returns H3_NULL exactly when the slot is outside the
\* range valid for the shape, and the right direction is never invalid when
\* the left one is valid.
C10_TwoNeighbors ==
  op = "getCellVertex" =>
    LET n == numVerts(origin)
        left == directionForVertexNum(origin, arg)
        right == directionForVertexNum(origin, (arg - 1 + n) % n)
    IN /\ arg \in validVertexNums(origin)
            => /\ validDirection(origin, left)
               /\ validDirection(origin, right)
               /\ left # right
               /\ h3NeighborRotations(origin, left).idx
                    # h3NeighborRotations(origin, right).idx
       /\ (ret = H3_NULL) <=> (arg \notin validVertexNums(origin))
       /\ left # INVALID_DIGIT => right # INVALID_DIGIT

\* slot 0 of a pentagon: the right direction is that of slot 4
C10_Witness ==
  /\ op = "getCellVertex"
  /\ h3IsPentagon(origin)
  /\ arg = 0
  /\ ret # H3_NULL
  /\ directionForVertexNum(origin, 4) # directionForVertexNum(origin, 0)

-----------------------------------------------------------------------------
(* Properties of the vertex of a shared corner (checked under SpecCorner). *)

\* the neighbors getCellVertex steps to from the origin for its corner arg
leftNeighborOf(cell, vertexNum) ==
  h3NeighborRotations(cell, directionForVertexNum(cell, vertexNum))
rightNeighborOf(cell, vertexNum) ==
  h3NeighborRotations(cell,
    directionForVertexNum(cell, (vertexNum - 1 + numVerts(cell)) % numVerts(cell)))

\* the cell a vertex names as its owner
ownerOf(vertex) == cellOf(vertexToPointOwner(vertex))

minOf(S) == CHOOSE x \in S : \A y \in S : x <= y

\* C2: the owner encoded in a vertex getCellVertex returns (the vertex with
\* the mode reset to cell and the reserved bits cleared) is the smallest raw
\* index among the origin, its left neighbor and its right neighbor.
C2_OwnerIsLowestIndex ==
  (op = "getCellVertex" /\ ret # H3_NULL) =>
    rawValue(vertexToPointOwner(ret)) =
      minOf({ rawValue(h3Index(origin)),
              rawValue(h3Index(leftNeighborOf(origin, arg))),
              rawValue(h3Index(rightNeighborOf(origin, arg))) })

\* the right neighbor has the lowest index of the three and owns the vertex
C2_Witness ==
  /\ op = "getCellVertex"
  /\ rightNeighborOf(origin, arg).idx < leftNeighborOf(origin, arg).idx
  /\ leftNeighborOf(origin, arg).idx < origin.idx
  /\ vertexToPointOwner(ret) = h3Index(rightNeighborOf(origin, arg))

\* C3: canonical ownership.  getCellVertex on any of the three cells that
\* share a corner, with the cell's own number for the corner, returns the
\* vertex the other two cells get: the same owner, and the number the corner
\* has in the owner's numbering.
C3_CanonicalOwnership ==
  op = "getCellVertex" =>
    /\ \A j \in 1..3 : getCellVertex(grid[j], grid[j].vn) = ret
    /\ vertexToPointVertexNum(ret) = ownerOf(ret).vn
    /\ \E j \in 1..3 : grid[j] = ownerOf(ret)

\* a hexagon asks for a corner that a pentagon, its left neighbor, owns at
\* the pentagon's vertex 0
C3_Witness ==
  /\ op = "getCellVertex"
  /\ ~h3IsPentagon(origin)
  /\ h3IsPentagon(ownerOf(ret))
  /\ ownerOf(ret) = leftNeighborOf(origin, arg)
  /\ vertexToPointVertexNum(ret) = 0
  /\ \A j \in 1..3 : getCellVertex(grid[j], grid[j].vn) = ret

\* C4: round trip.  A vertex getCellVertex returned, decoded as vertexToPoint
\* decodes it (vertex number = reserved bits, owner = the vertex with the
\* mode reset to cell and the reserved bits cleared) and handed back to
\* getCellVertex as (owner, vertex number), comes back unchanged.
C4_RoundTrip ==
  op = "roundTrip" => ret = arg

\* the vertex came from a cell that does not own it
C4_Witness ==
  /\ op = "roundTrip"
  /\ vertexToPointOwner(arg) # h3Index(origin)
  /\ vertexToPointVertexNum(arg) # origin.vn
  /\ ret = arg

\* the direction opposite to a direction of a hexagon: three edges further
oppositeDirection(d) ==
  vertexNumToDirectionHex((directionToVertexNumHex(d) + 3) % NUM_HEX_VERTS)

\* C6: path agreement.  When origin and owner are hexagons on the same face
\* with the same rotation count, and the direction from the owner back to the
\* origin is the opposite of the direction from the origin to the owner, the
\* table value (column 0 for a left-neighbor owner, column 1 for a
\* right-neighbor owner) equals the value of the general path
\* (vertexNumForDirection(owner, dirBack) + 1 wrapped to 0 at 6 for the left
\* neighbor, vertexNumForDirection(owner, dirBack) for the right neighbor).
C6_PathAgreement ==
  op = "getCellVertex" =>
    \A side \in 0..1 :
      LET n == numVerts(origin)
          dirOut == directionForVertexNum(origin, (arg - side + n) % n)
          owner == h3NeighborRotations(origin, dirOut)
          dirBack == directionForNeighbor(owner, origin)
      IN ( /\ isSimpleCase(origin, owner)
           /\ vertexRotations(origin, TRUE) = vertexRotations(owner, TRUE)
           /\ dirBack = oppositeDirection(dirOut) )
         => neighborVertexes(arg, side) =
              (IF side = 0 THEN leftOwnerVertexNum(owner, dirBack)
                           ELSE rightOwnerVertexNum(owner, dirBack))

\* the table was used for a left-neighbor owner, and the general path gives
\* its value through the wrap to 0
C6_Witness ==
  /\ op = "getCellVertex"
  /\ ownerOf(ret) = leftNeighborOf(origin, arg)
  /\ isSimpleCase(origin, ownerOf(ret))
  /\ vertexRotations(origin, TRUE) = vertexRotations(ownerOf(ret), TRUE)
  /\ directionForNeighbor(ownerOf(ret), origin)
       = oppositeDirection(directionForVertexNum(origin, arg))
  /\ vertexNumForDirection(ownerOf(ret), directionForNeighbor(ownerOf(ret), origin)) = 5
  /\ vertexToPointVertexNum(ret) = 0

\* C9: the reserved bits of a vertex getCellVertex returns hold a vertex
\* number valid for the owner's shape (0..5 for a hexagon, 0..4 for a
\* pentagon), whether the owner is the origin, was resolved by the table or
\* by the general path, and also when origin and owner differ in shape.
C9_VertexNumValidForOwner ==
  (op = "getCellVertex" /\ ret # H3_NULL) =>
    H3_GET_RESERVED_BITS(ret) \in validVertexNums(ownerOf(ret))

\* a hexagon's corner owned by its left neighbor, a pentagon, where the
\* general path wraps the pentagon's vertex number 5 to 0
C9_Witness ==
  /\ op = "getCellVertex"
  /\ ~h3IsPentagon(origin)
  /\ h3IsPentagon(ownerOf(ret))
  /\ ownerOf(ret) = leftNeighborOf(origin, arg)
  /\ vertexNumForDirection(ownerOf(ret), directionForNeighbor(ownerOf(ret), origin)) = 4
  /\ H3_GET_RESERVED_BITS(ret) = 0

====
